---------------------------- MODULE Spec2Model ----------------------------
(***************************************************************************)
(* A model of src/src/lib.rs: the reversed-keyword Trie, the power-of-two  *)
(* RingBuffer with its BackwardCursor, and the StreamAlerter that composes *)
(* them.  A char is a one-character string, a String is a sequence of      *)
(* chars, a Trie is the record [is_leaf, children] with children a         *)
(* function from chars to Tries (the HashMap<char, Trie>), and a Vec<char> *)
(* of length len is a function on 0..len-1.                                *)
(***************************************************************************)
EXTENDS Integers, Sequences, FiniteSets, TLC

VARIABLES
    keys,       \* StreamAlerter::new's argument (Vec<String>)
    sa,         \* the StreamAlerter: [ring, trie]
    stream,     \* the characters fed to sa.query so far, oldest first
    ret,        \* what the last sa.query call returned
    iters,      \* how many times the last call's loop body ran
    descents,   \* how many times the last call executed node = n.unwrap()
    reads,      \* the buffer indices the last call read, in order
    cap0,       \* sa.ring.len right after StreamAlerter::new
    keys2,      \* a second alerter, fed the same stream as sa
    sa2,
    ret2,
    stream2,    \* the characters fed to sa2.query, when not those fed to sa
    trie,       \* a stand-alone Trie
    inserted,   \* the set of keys given to trie.insert_str so far
    text,       \* the argument of the last trie.query_str call
    found,      \* what that call returned
    queried,    \* TRUE when no insert_str came after that call
    requested,  \* the n of RingBuffer::new(n)
    ring,       \* a stand-alone RingBuffer
    written,    \* the characters given to ring.insert so far, oldest first
    cursor,     \* the BackwardCursor last made by ring.cursor()
    nexts,      \* how many times cursor.next() was called
    cursorAt,   \* Len(written) when the cursor was made
    calls,      \* two query calls on sa run step by step: for each its pc,
                \* argument ch, trie node, cursor and returned value
    sa0,        \* sa before the first of the two calls began
    overlapped  \* TRUE once a step of one call came in the middle of the other

alerterVars == <<keys, sa, stream, ret, iters, descents, reads, cap0>>
pairVars == <<keys2, sa2, ret2, stream2>>
trieVars == <<trie, inserted, text, found, queried>>
ringVars == <<requested, ring, written, cursor, nexts, cursorAt>>
concVars == <<calls, sa0, overlapped>>
vars == <<alerterVars, pairVars, trieVars, ringVars, concVars>>

-----------------------------------------------------------------------------
(* Bounds of the model. *)

MaxKeyLen == 3
MaxKeys == 2
MaxStream == 4
PairKeyLen == 2
PairKeys == 2
PairStream == 3
WinKeyLen == 2
WinKeys == 2
WinStream == 3
ConcKeyLen == 2
ConcKeys == 1
ConcHist == 1
TrieKeyLen == 2
TrieKeys == 2
TrieText == 4
MaxN == 5
MaxWrites == 5

\* The blank is the char RingBuffer::new fills the buffer with.
Blank == " "
Chars == {Blank, "a"}

Strings(n) == UNION {[1..k -> Chars] : k \in 0..n}
Lists(S, n) == UNION {[1..k -> S] : k \in 0..n}
Range(s) == {s[i] : i \in 1..Len(s)}

-----------------------------------------------------------------------------
(* Trie *)

TrieDefault == [is_leaf |-> FALSE, children |-> [c \in {} |-> FALSE]]

\* key.chars().rev()
RECURSIVE Rev(_)
Rev(s) == IF s = <<>> THEN <<>> ELSE Append(Rev(Tail(s)), Head(s))

\* insert_str without the contains_key test: the child is always replaced by
\* a fresh default node.
RECURSIVE TrieInsertFromOverwrite(_, _)
TrieInsertFromOverwrite(node, rest) ==
    IF rest = <<>>
    THEN [node EXCEPT !.is_leaf = TRUE]
    ELSE LET ch == Head(rest)
             grown == TrieInsertFromOverwrite(TrieDefault, Tail(rest))
         IN [node EXCEPT !.children =
                [c \in DOMAIN node.children \cup {ch} |->
                    IF c = ch THEN grown ELSE node.children[c]]]

\* insert_str without the final node.is_leaf = true.
RECURSIVE TrieInsertFromNoLeaf(_, _)
TrieInsertFromNoLeaf(node, rest) ==
    IF rest = <<>>
    THEN node
    ELSE LET ch == Head(rest)
             child == IF ch \in DOMAIN node.children
                      THEN node.children[ch]
                      ELSE TrieDefault
             grown == TrieInsertFromNoLeaf(child, Tail(rest))
         IN [node EXCEPT !.children =
                [c \in DOMAIN node.children \cup {ch} |->
                    IF c = ch THEN grown ELSE node.children[c]]]

\* insert_str with node.is_leaf = true inside the loop: every node on the
\* key's path is marked, not only the last.
RECURSIVE TrieInsertFromMarkAll(_, _)
TrieInsertFromMarkAll(node, rest) ==
    IF rest = <<>>
    THEN [node EXCEPT !.is_leaf = TRUE]
    ELSE LET ch == Head(rest)
             child == IF ch \in DOMAIN node.children
                      THEN node.children[ch]
                      ELSE TrieDefault
             grown == TrieInsertFromMarkAll(child, Tail(rest))
         IN [node EXCEPT !.is_leaf = TRUE,
                         !.children =
                [c \in DOMAIN node.children \cup {ch} |->
                    IF c = ch THEN grown ELSE node.children[c]]]

\* The loop of insert_str from `node` on, over the chars left in `rest`.
RECURSIVE TrieInsertFrom(_, _)
TrieInsertFrom(node, rest) ==
    IF rest = <<>>
    THEN [node EXCEPT !.is_leaf = TRUE]
    ELSE LET ch == Head(rest)
             child == IF ch \in DOMAIN node.children
                      THEN node.children[ch]
                      ELSE TrieDefault
             grown == TrieInsertFrom(child, Tail(rest))
         IN [node EXCEPT !.children =
                [c \in DOMAIN node.children \cup {ch} |->
                    IF c = ch THEN grown ELSE node.children[c]]]

Trie_insert_str(t, key) == TrieInsertFrom(t, Rev(key))

\* The loop of query_str from `node` on, over the chars left in `rest`.
RECURSIVE TrieQueryFrom(_, _)
TrieQueryFrom(node, rest) ==
    IF rest = <<>>
    THEN FALSE
    ELSE LET ch == Head(rest)
         IN IF ch \in DOMAIN node.children
            THEN IF node.children[ch].is_leaf
                 THEN TRUE
                 ELSE TrieQueryFrom(node.children[ch], Tail(rest))
            ELSE FALSE

\* query_str walking key.chars() in place of key.chars().rev().
Trie_query_str_forward(t, key) == TrieQueryFrom(t, key)

Trie_query_str(t, key) == TrieQueryFrom(t, Rev(key))

-----------------------------------------------------------------------------
(* RingBuffer and BackwardCursor *)

\* a & b on non-negative integers.
RECURSIVE BitAnd(_, _)
BitAnd(a, b) ==
    IF a = 0 \/ b = 0
    THEN 0
    ELSE (a % 2) * (b % 2) + 2 * BitAnd(a \div 2, b \div 2)

\* The sizing loop with len += 1 in place of len += len.
RECURSIVE GrowLenLinear(_, _)
GrowLenLinear(len, n) == IF len < n THEN GrowLenLinear(len + 1, n) ELSE len

\* The sizing loop with len <= n in place of len < n.
RECURSIVE GrowLenLe(_, _)
GrowLenLe(len, n) == IF len <= n THEN GrowLenLe(len + len, n) ELSE len

\* let mut len = 2; while len < n { len += len; }
RECURSIVE GrowLen(_, _)
GrowLen(len, n) == IF len < n THEN GrowLen(len + len, n) ELSE len

RingBuffer_new(n) ==
    LET len == GrowLen(2, n)
    IN [buffer |-> [i \in 0..(len - 1) |-> Blank], len |-> len, pos |-> 0]

\* insert advancing pos before it writes, in place of after.
RingBuffer_insert_after(r, ch) ==
    [r EXCEPT !.buffer[BitAnd(r.pos + 1, r.len - 1)] = ch,
              !.pos = BitAnd(r.pos + 1, r.len - 1)]

RingBuffer_insert(r, ch) ==
    [r EXCEPT !.buffer[r.pos] = ch,
              !.pos = BitAnd(r.pos + 1, r.len - 1)]

\* cursor() starting one slot behind the write position.
RingBuffer_cursor_behind(r) ==
    [idx |-> BitAnd(r.pos + r.len - 1, r.len - 1), len |-> r.len]

RingBuffer_cursor(r) == [idx |-> r.pos, len |-> r.len]

RingBuffer_get(r, index) == r.buffer[index]

\* next() without the mask: self.idx &= self.len - 1 left out.
BackwardCursor_next_nomask(c) ==
    [c EXCEPT !.idx = c.idx + c.len - 1]

\* next() stepping one slot forward in place of one slot backward.
BackwardCursor_next_forward(c) ==
    [c EXCEPT !.idx = BitAnd(c.idx + 1, c.len - 1)]

\* The cursor after next(); the value next() returns is its idx.
BackwardCursor_next(c) ==
    [c EXCEPT !.idx = BitAnd(c.idx + c.len - 1, c.len - 1)]

-----------------------------------------------------------------------------
(* StreamAlerter *)

\* The for loop of new taking every key's length as max_len (the test
\* v > max_len left out).
RECURSIVE NewLoopLast(_, _, _)
NewLoopLast(t, max_len, rest) ==
    IF rest = <<>>
    THEN [trie |-> t, max_len |-> max_len]
    ELSE LET key == Head(rest)
             v == Len(key)
         IN NewLoopLast(Trie_insert_str(t, key), v, Tail(rest))

\* The for loop of StreamAlerter::new over the keys left in `rest`.
RECURSIVE NewLoop(_, _, _)
NewLoop(t, max_len, rest) ==
    IF rest = <<>>
    THEN [trie |-> t, max_len |-> max_len]
    ELSE LET key == Head(rest)
             v == Len(key)
         IN NewLoop(Trie_insert_str(t, key),
                    IF v > max_len THEN v ELSE max_len,
                    Tail(rest))

StreamAlerter_new(ks) ==
    LET built == NewLoop(TrieDefault, 0, ks)
    IN [ring |-> RingBuffer_new(built.max_len), trie |-> built.trie]

\* The loop body returning true where the code returns false (no child).
LoopBodyMismatchTrue(r, node, cur) ==
    LET stepped == BackwardCursor_next(cur)
        c == RingBuffer_get(r, stepped.idx)
    IN IF c \in DOMAIN node.children
       THEN IF node.children[c].is_leaf
            THEN [done |-> TRUE, ret |-> TRUE, node |-> node, cursor |-> stepped]
            ELSE [done |-> FALSE, ret |-> FALSE, node |-> node.children[c],
                  cursor |-> stepped]
       ELSE [done |-> TRUE, ret |-> TRUE, node |-> node, cursor |-> stepped]

\* The loop body testing is_leaf on the node it stands on, before it reads a
\* character, in place of testing the child it is about to enter.
LoopBodyLeafFirst(r, node, cur) ==
    LET stepped == BackwardCursor_next(cur)
        c == RingBuffer_get(r, stepped.idx)
    IN IF node.is_leaf
       THEN [done |-> TRUE, ret |-> TRUE, node |-> node, cursor |-> cur]
       ELSE IF c \in DOMAIN node.children
            THEN [done |-> FALSE, ret |-> FALSE, node |-> node.children[c],
                  cursor |-> stepped]
            ELSE [done |-> TRUE, ret |-> FALSE, node |-> node, cursor |-> stepped]

\* One run of the body of query's loop, at trie node `node` with cursor `cur`.
LoopBody(r, node, cur) ==
    LET stepped == BackwardCursor_next(cur)
        c == RingBuffer_get(r, stepped.idx)
    IN IF c \in DOMAIN node.children
       THEN IF node.children[c].is_leaf
            THEN [done |-> TRUE, ret |-> TRUE, node |-> node, cursor |-> stepped]
            ELSE [done |-> FALSE, ret |-> FALSE, node |-> node.children[c],
                  cursor |-> stepped]
       ELSE [done |-> TRUE, ret |-> FALSE, node |-> node, cursor |-> stepped]

\* The loop of query, run to its return.
RECURSIVE Walk(_, _, _, _)
Walk(r, node, cur, n) ==
    LET b == LoopBody(r, node, cur)
    IN IF b.done
       THEN [ret |-> b.ret, iters |-> n + 1, descents |-> n,
             reads |-> <<b.cursor.idx>>]
       ELSE LET w == Walk(r, b.node, b.cursor, n + 1)
            IN [w EXCEPT !.reads = <<b.cursor.idx>> \o @]

\* self.query(ch): the alerter afterwards and what the call returned.
StreamAlerter_query(a, ch) ==
    LET r == RingBuffer_insert(a.ring, ch)
        w == Walk(r, a.trie, RingBuffer_cursor(r), 0)
    IN [sa |-> [a EXCEPT !.ring = r],
        ret |-> w.ret, iters |-> w.iters, descents |-> w.descents,
        reads |-> w.reads]

-----------------------------------------------------------------------------
(* Parked values of the variables a specification does not use. *)

PairParked ==
    /\ keys2 = <<>>
    /\ sa2 = TrieDefault
    /\ ret2 = FALSE
    /\ stream2 = <<>>
TrieParked ==
    /\ trie = TrieDefault
    /\ inserted = {}
    /\ text = <<>>
    /\ found = FALSE
    /\ queried = FALSE
RingParked ==
    /\ requested = 0
    /\ ring = TrieDefault
    /\ written = <<>>
    /\ cursor = TrieDefault
    /\ nexts = 0
    /\ cursorAt = 0
ConcParked ==
    /\ calls = <<>>
    /\ sa0 = TrieDefault
    /\ overlapped = FALSE
AlerterParked ==
    /\ keys = <<>>
    /\ sa = TrieDefault
    /\ stream = <<>>
    /\ ret = FALSE
    /\ iters = 0
    /\ descents = 0
    /\ reads = <<>>
    /\ cap0 = 0

-----------------------------------------------------------------------------
(* Spec: one StreamAlerter, built from any keyword list and fed any stream. *)

KeyLists == Lists(Strings(MaxKeyLen), MaxKeys)

Init ==
    /\ keys \in KeyLists
    /\ sa = StreamAlerter_new(keys)
    /\ stream = <<>>
    /\ ret = FALSE
    /\ iters = 0
    /\ descents = 0
    /\ reads = <<>>
    /\ cap0 = sa.ring.len
    /\ PairParked /\ TrieParked /\ RingParked /\ ConcParked

Query(ch) ==
    /\ Len(stream) < MaxStream
    /\ \E q \in {StreamAlerter_query(sa, ch)} :
          /\ sa' = q.sa
          /\ ret' = q.ret
          /\ iters' = q.iters
          /\ descents' = q.descents
          /\ reads' = q.reads
    /\ stream' = Append(stream, ch)
    /\ UNCHANGED <<keys, cap0, pairVars, trieVars, ringVars, concVars>>

Next == \E ch \in Chars : Query(ch)

Spec == Init /\ [][Next]_vars

-----------------------------------------------------------------------------
(* SpecPair: two StreamAlerters fed the same stream.  The second is built   *)
(* either from the first one's keywords listed once each in a fixed order,  *)
(* or from the first one's list with one empty string put in somewhere.     *)

\* The strings of ks, each once, in one fixed order.
Canon(ks) ==
    CHOOSE l \in [1..Cardinality(Range(ks)) -> Range(ks)] : Range(l) = Range(ks)

\* ks with one empty string inserted at any place.
WithEmpty(ks) ==
    {SubSeq(ks, 1, i) \o <<<<>>>> \o SubSeq(ks, i + 1, Len(ks)) : i \in 0..Len(ks)}

InitPair ==
    /\ keys \in Lists(Strings(PairKeyLen), PairKeys)
    /\ keys2 \in {Canon(keys)} \cup WithEmpty(keys)
    /\ sa = StreamAlerter_new(keys)
    /\ sa2 = StreamAlerter_new(keys2)
    /\ stream = <<>>
    /\ ret = FALSE
    /\ ret2 = FALSE
    /\ stream2 = <<>>
    /\ iters = 0
    /\ descents = 0
    /\ reads = <<>>
    /\ cap0 = sa.ring.len
    /\ TrieParked /\ RingParked /\ ConcParked

QueryBoth(ch) ==
    /\ Len(stream) < PairStream
    /\ \E q \in {StreamAlerter_query(sa, ch)} :
          /\ sa' = q.sa
          /\ ret' = q.ret
          /\ iters' = q.iters
          /\ descents' = q.descents
          /\ reads' = q.reads
    /\ \E q \in {StreamAlerter_query(sa2, ch)} :
          /\ sa2' = q.sa
          /\ ret2' = q.ret
    /\ stream' = Append(stream, ch)
    /\ UNCHANGED <<keys, keys2, stream2, cap0, trieVars, ringVars, concVars>>

NextPair == \E ch \in Chars : QueryBoth(ch)

SpecPair == InitPair /\ [][NextPair]_vars

-----------------------------------------------------------------------------
(* SpecWindow: two StreamAlerters built from the same keywords (each listed *)
(* once, in the fixed order), each fed a stream of its own.                 *)

InitWindow ==
    /\ keys \in {ks \in Lists(Strings(WinKeyLen), WinKeys) : Canon(ks) = ks}
    /\ keys2 = keys
    /\ sa = StreamAlerter_new(keys)
    /\ sa2 = StreamAlerter_new(keys2)
    /\ stream = <<>>
    /\ stream2 = <<>>
    /\ ret = FALSE
    /\ ret2 = FALSE
    /\ iters = 0
    /\ descents = 0
    /\ reads = <<>>
    /\ cap0 = sa.ring.len
    /\ TrieParked /\ RingParked /\ ConcParked

QueryFirst(ch) ==
    /\ Len(stream) < WinStream
    /\ \E q \in {StreamAlerter_query(sa, ch)} :
          /\ sa' = q.sa
          /\ ret' = q.ret
          /\ iters' = q.iters
          /\ descents' = q.descents
          /\ reads' = q.reads
    /\ stream' = Append(stream, ch)
    /\ UNCHANGED <<keys, cap0, pairVars, trieVars, ringVars, concVars>>

QuerySecond(ch) ==
    /\ Len(stream2) < WinStream
    /\ \E q \in {StreamAlerter_query(sa2, ch)} :
          /\ sa2' = q.sa
          /\ ret2' = q.ret
    /\ stream2' = Append(stream2, ch)
    /\ UNCHANGED <<keys2, alerterVars, trieVars, ringVars, concVars>>

NextWindow ==
    \/ \E ch \in Chars : QueryFirst(ch)
    \/ \E ch \in Chars : QuerySecond(ch)

SpecWindow == InitWindow /\ [][NextWindow]_vars

-----------------------------------------------------------------------------
(* SpecConc: one StreamAlerter, fed some characters by whole query calls,   *)
(* then given two query calls A and B whose steps (the buffer insert, the   *)
(* making of the cursor, each run of the loop body) may interleave.         *)

Procs == {"A", "B"}

Other(p) == CHOOSE q \in Procs : q # p

IdleCall ==
    [pc |-> "idle", ch |-> Blank, node |-> TrieDefault,
     cursor |-> [idx |-> 0, len |-> 0], ret |-> FALSE]

\* Call q has begun and not returned.
Mid(q) == calls[q].pc \in {"cursor", "loop"}

InitConc ==
    /\ keys \in Lists(Strings(ConcKeyLen), ConcKeys)
    /\ sa = StreamAlerter_new(keys)
    /\ stream = <<>>
    /\ ret = FALSE
    /\ iters = 0
    /\ descents = 0
    /\ reads = <<>>
    /\ cap0 = sa.ring.len
    /\ calls = [p \in Procs |-> IdleCall]
    /\ sa0 = sa
    /\ overlapped = FALSE
    /\ PairParked /\ TrieParked /\ RingParked

\* A whole query call, before A and B begin.
Feed(ch) ==
    /\ \A p \in Procs : calls[p].pc = "idle"
    /\ Len(stream) < ConcHist
    /\ \E q \in {StreamAlerter_query(sa, ch)} :
          /\ sa' = q.sa
          /\ sa0' = q.sa
          /\ ret' = q.ret
          /\ iters' = q.iters
          /\ descents' = q.descents
          /\ reads' = q.reads
    /\ stream' = Append(stream, ch)
    /\ UNCHANGED <<keys, cap0, calls, overlapped, pairVars, trieVars, ringVars>>

\* Call p begins: self.ring.insert(ch).
StepInsert(p, ch) ==
    /\ calls[p].pc = "idle"
    /\ sa' = [sa EXCEPT !.ring = RingBuffer_insert(sa.ring, ch)]
    /\ calls' = [calls EXCEPT ![p] = [@ EXCEPT !.pc = "cursor", !.ch = ch]]
    /\ overlapped' = (overlapped \/ Mid(Other(p)))
    /\ UNCHANGED <<keys, stream, ret, iters, descents, reads, cap0, sa0>>
    /\ UNCHANGED <<pairVars, trieVars, ringVars>>

\* The step of call p with the cursor made one slot behind.
StepCursorBehind(p) ==
    /\ calls[p].pc = "cursor"
    /\ calls' = [calls EXCEPT ![p] =
                    [@ EXCEPT !.pc = "loop",
                              !.node = sa.trie,
                              !.cursor = RingBuffer_cursor_behind(sa.ring)]]
    /\ overlapped' = (overlapped \/ Mid(Other(p)))
    /\ UNCHANGED <<alerterVars, sa0, pairVars, trieVars, ringVars>>

\* let mut node = &self.trie; let mut cursor = self.ring.cursor();
StepCursor(p) ==
    /\ calls[p].pc = "cursor"
    /\ calls' = [calls EXCEPT ![p] =
                    [@ EXCEPT !.pc = "loop",
                              !.node = sa.trie,
                              !.cursor = RingBuffer_cursor(sa.ring)]]
    /\ overlapped' = (overlapped \/ Mid(Other(p)))
    /\ UNCHANGED <<alerterVars, sa0, pairVars, trieVars, ringVars>>

\* One run of the loop body of call p, on the buffer as it is now.
StepLoop(p) ==
    /\ calls[p].pc = "loop"
    /\ \E b \in {LoopBody(sa.ring, calls[p].node, calls[p].cursor)} :
          calls' = [calls EXCEPT ![p] =
                      IF b.done
                      THEN [@ EXCEPT !.pc = "done", !.ret = b.ret,
                                     !.cursor = b.cursor]
                      ELSE [@ EXCEPT !.node = b.node, !.cursor = b.cursor]]
    /\ overlapped' = (overlapped \/ Mid(Other(p)))
    /\ UNCHANGED <<alerterVars, sa0, pairVars, trieVars, ringVars>>

NextConc ==
    \/ \E ch \in Chars : Feed(ch)
    \/ \E p \in Procs, ch \in Chars : StepInsert(p, ch)
    \/ \E p \in Procs : StepCursor(p)
    \/ \E p \in Procs : StepLoop(p)

SpecConc == InitConc /\ [][NextConc]_vars

-----------------------------------------------------------------------------
(* SpecTrie: one Trie, given any insert_str and query_str calls. *)

InitTrie ==
    /\ trie = TrieDefault
    /\ inserted = {}
    /\ text = <<>>
    /\ found = FALSE
    /\ queried = FALSE
    /\ AlerterParked /\ PairParked /\ RingParked /\ ConcParked

InsertStr(key) ==
    /\ Cardinality(inserted \cup {key}) <= TrieKeys
    /\ trie' = Trie_insert_str(trie, key)
    /\ inserted' = inserted \cup {key}
    /\ text' = <<>>
    /\ found' = FALSE
    /\ queried' = FALSE
    /\ UNCHANGED <<alerterVars, pairVars, ringVars, concVars>>

QueryStr(t) ==
    /\ text' = t
    /\ found' = Trie_query_str(trie, t)
    /\ queried' = TRUE
    /\ UNCHANGED <<trie, inserted, alerterVars, pairVars, ringVars, concVars>>

NextTrie ==
    \/ \E key \in Strings(TrieKeyLen) : InsertStr(key)
    \/ \E t \in Strings(TrieText) : QueryStr(t)

SpecTrie == InitTrie /\ [][NextTrie]_vars

-----------------------------------------------------------------------------
(* SpecRing: one RingBuffer made by RingBuffer::new(n) for any n, given any *)
(* inserts, with cursors made by cursor() and stepped by next().            *)

InitRing ==
    /\ requested \in 0..MaxN
    /\ ring = RingBuffer_new(requested)
    /\ written = <<>>
    /\ cursor = RingBuffer_cursor(ring)
    /\ nexts = 0
    /\ cursorAt = 0
    /\ AlerterParked /\ PairParked /\ TrieParked /\ ConcParked

RingInsert(ch) ==
    /\ Len(written) < MaxWrites
    /\ ring' = RingBuffer_insert(ring, ch)
    /\ written' = Append(written, ch)
    /\ UNCHANGED <<requested, cursor, nexts, cursorAt>>
    /\ UNCHANGED <<alerterVars, pairVars, trieVars, concVars>>

RingCursor ==
    /\ cursor' = RingBuffer_cursor(ring)
    /\ nexts' = 0
    /\ cursorAt' = Len(written)
    /\ UNCHANGED <<requested, ring, written>>
    /\ UNCHANGED <<alerterVars, pairVars, trieVars, concVars>>

\* One cursor.next(); a cursor is stepped at most once round the buffer.
CursorNext ==
    /\ nexts < cursor.len
    /\ cursor' = BackwardCursor_next(cursor)
    /\ nexts' = nexts + 1
    /\ UNCHANGED <<requested, ring, written, cursorAt>>
    /\ UNCHANGED <<alerterVars, pairVars, trieVars, concVars>>

NextRing ==
    \/ \E ch \in Chars : RingInsert(ch)
    \/ RingCursor
    \/ CursorNext

SpecRing == InitRing /\ [][NextRing]_vars

-----------------------------------------------------------------------------
(* Vocabulary of the properties. *)

IsSuffix(k, s) ==
    /\ Len(k) <= Len(s)
    /\ SubSeq(s, Len(s) - Len(k) + 1, Len(s)) = k

\* The character count of the longest string of ks (0 for none).
MaxLenOf(ks) ==
    IF ks = <<>>
    THEN 0
    ELSE CHOOSE n \in {Len(ks[i]) : i \in 1..Len(ks)} :
            \A i \in 1..Len(ks) : Len(ks[i]) <= n

AtLeastOne(n) == IF n < 1 THEN 1 ELSE n

IsPowerOfTwo(n) == \E k \in 0..n : 2 ^ k = n

\* The length of the longest path from node t down.
RECURSIVE TrieDepth(_)
TrieDepth(t) ==
    IF DOMAIN t.children = {}
    THEN 0
    ELSE LET ds == {TrieDepth(t.children[c]) : c \in DOMAIN t.children}
         IN 1 + CHOOSE d \in ds : \A e \in ds : e <= d

\* Some non-empty keyword of ks is the tail of s.
EndsWithKeyword(ks, s) ==
    \E i \in 1..Len(ks) : ks[i] # <<>> /\ IsSuffix(ks[i], s)

-----------------------------------------------------------------------------
(* Properties of Spec. *)

\* C1: no false alarm. When query returns true, some registered non-empty
\* keyword equals the last characters actually fed, ending with the one just
\* fed; a stream shorter than a keyword never alarms for it.
NoFalseAlarm ==
    (stream # <<>> /\ ret) => EndsWithKeyword(keys, stream)

\* C2: no missed alarm. Whenever the characters fed so far end with a
\* registered non-empty keyword, the query call for the last character
\* returned true.
NoMissedAlarm ==
    (stream # <<>> /\ EndsWithKeyword(keys, stream)) => ret

\* A stream that ends with two different keywords, one a suffix of the other,
\* after some earlier characters, and the call alarmed.
NoMissedAlarmWitness ==
    /\ ret
    /\ \E i, j \in 1..Len(keys) :
          /\ keys[i] # <<>>
          /\ Len(keys[i]) < Len(keys[j])
          /\ IsSuffix(keys[i], keys[j])
          /\ IsSuffix(keys[j], stream)
          /\ Len(keys[j]) < Len(stream)

\* C3 as stated: the loop of every query call runs at most maxLen times,
\* maxLen the character count of the longest keyword given at construction.
LoopWithinMaxLen ==
    stream # <<>> => iters <= MaxLenOf(keys)

\* C3, amended: every query call returns, its loop having run at least once
\* and at most max(maxLen, 1) times.
LoopWithinMaxLenOrOne ==
    stream # <<>> => (iters >= 1 /\ iters <= AtLeastOne(MaxLenOf(keys)))

\* A call whose loop ran as many times as the longest keyword is long.
LoopWithinMaxLenOrOneWitness ==
    /\ stream # <<>>
    /\ MaxLenOf(keys) >= 2
    /\ iters = MaxLenOf(keys)

\* C4: an alerter built from the empty keyword list returns false from every
\* query call and descends no trie edge.
EmptyListNeverAlarms ==
    (keys = <<>> /\ stream # <<>>) => (~ret /\ descents = 0)

\* The empty-list alerter after several queries.
EmptyListNeverAlarmsWitness ==
    /\ keys = <<>>
    /\ Len(stream) >= 2
    /\ ~ret
    /\ descents = 0

\* C10: in every state of an alerter the ring's capacity is a power of two,
\* is at least the character count of the longest keyword (the depth of the
\* trie), and is the capacity chosen at construction.
CapacityInvariant ==
    /\ IsPowerOfTwo(sa.ring.len)
    /\ sa.ring.len >= MaxLenOf(keys)
    /\ sa.ring.len >= TrieDepth(sa.trie)
    /\ sa.ring.len = cap0
    /\ DOMAIN sa.ring.buffer = 0..(sa.ring.len - 1)

\* An alerter whose longest keyword has three characters, with capacity 4,
\* after the write position has wrapped.
CapacityInvariantWitness ==
    /\ MaxLenOf(keys) = 3
    /\ sa.ring.len = 4
    /\ Len(stream) >= sa.ring.len
    /\ sa.ring.pos = 0

\* C11: the state change of query(ch) is exactly one buffer insert, whatever
\* the call returns. The slot at the old write position becomes ch, every
\* other slot keeps its character, the write position advances by one modulo
\* the capacity, and the trie is left as it was.
QueryFrame ==
    [][LET old == sa.ring
           new == sa'.ring
           ch == stream'[Len(stream')]
       IN /\ stream' = Append(stream, ch)
          /\ DOMAIN new.buffer = DOMAIN old.buffer
          /\ new.buffer[old.pos] = ch
          /\ \A i \in DOMAIN old.buffer \ {old.pos} : new.buffer[i] = old.buffer[i]
          /\ new.pos = (old.pos + 1) % old.len
          /\ new.len = old.len
          /\ sa'.trie = sa.trie]_vars

\* A call that alarmed after the write position
\* had wrapped twice round a capacity-2 buffer.
QueryFrameWitness ==
    /\ sa.ring.len = 2
    /\ Len(stream) = 4
    /\ sa.ring.pos = 0
    /\ ret
    /\ sa.ring.buffer[0] # sa.ring.buffer[1]

\* C13: within one query call the loop never reads the same buffer index
\* twice; the number of cursor steps of a call is at most the capacity.
NoIndexReadTwice ==
    /\ Len(reads) = iters
    /\ Len(reads) <= sa.ring.len
    /\ \A i, j \in 1..Len(reads) : i # j => reads[i] # reads[j]

\* A call on a capacity-4 buffer that read three slots, wrapping from slot 0
\* to slot 3.
NoIndexReadTwiceWitness ==
    /\ sa.ring.len = 4
    /\ reads = <<0, 3, 2>>

\* C16: the streaming detector agrees with query_str on the full history.
\* After the stream s is fed character by character, the last query call
\* returned what query_str(s) returns on the alerter's trie, also for streams
\* shorter than the capacity.
QueryAgreesWithQueryStr ==
    stream # <<>> => (ret <=> Trie_query_str(sa.trie, stream))

-----------------------------------------------------------------------------
(* Properties of SpecPair. *)

\* C5: an empty keyword is never matchable. An alerter built from K plus the
\* empty string returns from every query call what the one built from K
\* returns, and query_str answers alike on both tries for every text (false
\* for the empty text), although the empty string marks the root terminal.
EmptyKeywordInert ==
    keys2 \in WithEmpty(keys) =>
        /\ ret2 = ret
        /\ Trie_query_str(sa2.trie, stream) = Trie_query_str(sa.trie, stream)
        /\ ~Trie_query_str(sa2.trie, <<>>)
        /\ sa2.trie.is_leaf

\* K holds no empty string, K plus the empty string marks the root, and a
\* call on both alerters alarmed.
EmptyKeywordInertWitness ==
    /\ keys2 \in WithEmpty(keys)
    /\ <<>> \notin Range(keys)
    /\ ~sa.trie.is_leaf
    /\ sa2.trie.is_leaf
    /\ Len(stream) >= 2
    /\ ret /\ ret2

\* C6: construction has set semantics. Alerters built from lists holding the
\* same set of keywords (in any order, with any duplicates) return the same
\* result from every query call on the same stream.
SetSemantics ==
    Range(keys2) = Range(keys) => ret2 = ret

\* Two lists of the same two keywords in different orders, whose alerters
\* alarmed on the same call.
SetSemanticsWitness ==
    /\ Range(keys2) = Range(keys)
    /\ keys2 # keys
    /\ Len(keys2) = Len(keys)
    /\ Cardinality(Range(keys)) >= 2
    /\ Len(stream) >= 2
    /\ ret /\ ret2

-----------------------------------------------------------------------------
(* Properties of SpecWindow. *)

\* The last n characters of s (all of s when it is shorter).
LastN(s, n) == SubSeq(s, Len(s) - n + 1, Len(s))

\* C15: bounded window. The result of query depends only on the keywords and
\* the last maxLen characters fed: two alerters of the same keywords, fed
\* streams of at least maxLen characters that agree on their last maxLen
\* characters, returned the same result for their last character.
BoundedWindow ==
    LET n == MaxLenOf(keys)
    IN (/\ stream # <<>>
        /\ stream2 # <<>>
        /\ Len(stream) >= n
        /\ Len(stream2) >= n
        /\ LastN(stream, n) = LastN(stream2, n)) => ret2 = ret

\* Two streams of different lengths that differ before their common last
\* two characters, for keywords of at most two characters; both calls
\* alarmed.
BoundedWindowWitness ==
    /\ MaxLenOf(keys) = 2
    /\ Len(stream) = 3
    /\ Len(stream2) = 2
    /\ LastN(stream, 2) = stream2
    /\ stream[1] # stream2[1]
    /\ ret /\ ret2

-----------------------------------------------------------------------------
(* Properties of SpecTrie. *)

\* C8: query_str(text) is true exactly when some inserted non-empty keyword
\* is a suffix of text; so it is false for the empty text and for a text
\* that is only a proper prefix or a proper suffix of a keyword.
QueryStrIsSuffixMatch ==
    queried =>
        (found <=> \E k \in inserted : k # <<>> /\ IsSuffix(k, text))

\* A text longer than the two-character keyword it ends with was found, in
\* a trie holding two keywords.
QueryStrIsSuffixMatchWitness ==
    /\ queried
    /\ found
    /\ \E k \in inserted : Len(k) = 2 /\ Len(k) < Len(text) /\ IsSuffix(k, text)
    /\ Cardinality(inserted) = 2

\* The paths (sequences of edge labels) from node t to the nodes below it,
\* t itself included.
RECURSIVE TriePaths(_)
TriePaths(t) ==
    {<<>>} \cup UNION {{<<c>> \o p : p \in TriePaths(t.children[c])} :
                        c \in DOMAIN t.children}

\* The node at the end of path p from node t.
RECURSIVE NodeAt(_, _)
NodeAt(t, p) == IF p = <<>> THEN t ELSE NodeAt(t.children[Head(p)], Tail(p))

\* The character count of the longest string of the set S (0 for none).
LongestOf(S) ==
    IF S = {}
    THEN 0
    ELSE CHOOSE n \in {Len(k) : k \in S} : \A k \in S : Len(k) <= n

\* A node is terminal exactly when its path, reversed, is an inserted keyword,
\* and no node lies deeper than the longest inserted keyword is long.
TrieShape ==
    \A p \in TriePaths(trie) :
        /\ NodeAt(trie, p).is_leaf <=> Rev(p) \in inserted
        /\ Len(p) <= LongestOf(inserted)

\* No step removes a node or clears a terminal mark (a step that leaves the
\* trie as it was does neither).
TrieGrows ==
    \/ trie' = trie
    \/ \A p \in TriePaths(trie) :
          /\ p \in TriePaths(trie')
          /\ NodeAt(trie, p).is_leaf => NodeAt(trie', p).is_leaf

\* C14: the trie invariant after any insert_str calls. A node is terminal if
\* and only if the edge labels from the root to it, read in reverse, spell an
\* inserted keyword; every node's depth is at most the character count of
\* the longest inserted keyword; an insert never removes a node or clears a
\* terminal mark.
TrieInvariant == []TrieShape /\ [][TrieGrows]_vars

\* A trie of two keywords, one the other's suffix: a terminal node with a
\* terminal child.
TrieInvariantWitness ==
    /\ Cardinality(inserted) = 2
    /\ \E p \in TriePaths(trie) :
          /\ Len(p) = 1
          /\ NodeAt(trie, p).is_leaf
          /\ \E c \in DOMAIN NodeAt(trie, p).children :
                NodeAt(trie, p).children[c].is_leaf

-----------------------------------------------------------------------------
(* Properties of SpecRing. *)

\* C7: backward order. After m inserts into a buffer of capacity c and no
\* insert since the cursor was made, the i-th next() (1 <= i <= c) gives the
\* slot of the i-th most recently inserted character when i <= m, and a
\* never-written slot, still blank, when i > m.
BackwardOrder ==
    (cursorAt = Len(written) /\ nexts >= 1) =>
        LET m == Len(written)
            c == ring.len
            i == nexts
        IN /\ i <= c
           /\ IF i <= m
              THEN /\ cursor.idx = (m - i) % c
                   /\ RingBuffer_get(ring, cursor.idx) = written[m - i + 1]
              ELSE /\ cursor.idx \in m..(c - 1)
                   /\ RingBuffer_get(ring, cursor.idx) = Blank

\* A capacity-4 buffer after five inserts, its cursor stepped four times:
\* the last read is the fourth newest character, the first one being
\* overwritten.
BackwardOrderWitness ==
    /\ ring.len = 4
    /\ Len(written) = 5
    /\ cursorAt = 5
    /\ nexts = 4
    /\ written[1] # written[5]

\* C9: RingBuffer::new(n) gives the smallest power-of-two capacity that is
\* at least n and at least 2, every slot blank and write position 0.
NewCapacity ==
    /\ IsPowerOfTwo(ring.len)
    /\ ring.len >= 2
    /\ ring.len >= requested
    /\ \A p \in 2..(ring.len - 1) : ~(IsPowerOfTwo(p) /\ p >= requested)
    /\ DOMAIN ring.buffer = 0..(ring.len - 1)
    /\ written = <<>> =>
          /\ ring.pos = 0
          /\ \A i \in DOMAIN ring.buffer : ring.buffer[i] = Blank

\* new(3) gave capacity 4.
NewCapacityWitness ==
    /\ requested = 3
    /\ ring.len = 4
    /\ written = <<>>
    /\ ring.pos = 0

\* The write position and the cursor's index are slots of the buffer.
IndexInRange ==
    /\ ring.pos \in 0..(ring.len - 1)
    /\ cursor.len = ring.len
    /\ cursor.idx \in 0..(cursor.len - 1)
    /\ cursor.idx \in DOMAIN ring.buffer

\* C12: index safety. After any inserts and cursor steps the write position
\* and every index next() returns lie in [0, capacity), each next() moves
\* exactly one slot backward modulo the capacity, and so every get through a
\* cursor is in bounds.
IndexSafety ==
    /\ IndexInRange
    /\ [][/\ IndexInRange'
          /\ nexts' = nexts + 1 =>
                cursor'.idx = (cursor.idx - 1) % cursor.len]_vars

\* A capacity-4 buffer whose write position wrapped to 0, and a cursor made
\* there whose first next() wrapped to slot 3.
IndexSafetyWitness ==
    /\ ring.len = 4
    /\ Len(written) = 4
    /\ ring.pos = 0
    /\ cursorAt = 4
    /\ nexts = 1
    /\ cursor.idx = 3

-----------------------------------------------------------------------------
(* Properties of SpecConc. *)

\* What call p returns when the two calls run one after the other from sa0:
\* p first, and, once the other call has its argument, p second.
SerialResults(p) ==
    LET q == Other(p)
        first == StreamAlerter_query(sa0, calls[p].ch).ret
        second == StreamAlerter_query(
                      StreamAlerter_query(sa0, calls[q].ch).sa, calls[p].ch).ret
    IN IF calls[q].pc = "idle" THEN {first} ELSE {first, second}

\* Call p returned a result it has in no serial order of the two calls.
Unserializable(p) ==
    /\ calls[p].pc = "done"
    /\ calls[p].ret \notin SerialResults(p)

=============================================================================
